---- MODULE Spec2Model ----
(***************************************************************************)
(* Bloch-vector dynamics of a driven two-level system (blochvector.ipynb). *)
(*                                                                         *)
(* The notebook's two functions are modelled: expectation (the closed-form *)
(* solution, section 3) and compute_bloch_evolution (the loop over the     *)
(* study cases, section 4).                                                *)
(*                                                                         *)
(* Floating-point numbers are modelled in decimal fixed point: the real    *)
(* number x is the integer round(x * Scale), and every arithmetic          *)
(* operation rounds its result to that grid, as a float operation rounds   *)
(* to its own.  A float value is a record [nan, v]: nan marks IEEE         *)
(* not-a-number, which every operation propagates.                         *)
(***************************************************************************)
EXTENDS Integers, Sequences, FiniteSets, TLC

----------------------------------------------------------------------------
(* Fixed-point integer arithmetic, six decimal places.  TLC's integers are *)
(* 32 bits wide, so products and quotients are taken in two halves of K.   *)

K == 10 * 10 * 10
Scale == K * K

Abs(a) == IF a < 0 THEN -a ELSE a
Sgn(a) == IF a < 0 THEN -1 ELSE 1

\* The operations are functions, so that TLC evaluates an argument once,
\* however often the body uses it.

\* round(a * b / Scale), a, b >= 0
MulNat[a \in Nat, b \in Nat] ==
    LET ah == a \div K
        al == a % K
        bh == b \div K
        bl == b % K
        m  == ah * bl + al * bh
    IN  ah * bh + (m \div K) + (((m % K) * K + al * bl + (Scale \div 2)) \div Scale)

\* round(a * b / Scale), rounding half away from zero
MulFix[a \in Int, b \in Int] == Sgn(a) * Sgn(b) * MulNat[Abs(a), Abs(b)]

\* round(a * Scale / b), a >= 0, b > 0
DivNat[a \in Nat, b \in Nat \ {0}] ==
    LET q0 == a \div b
        r1 == (a % b) * K
        q1 == r1 \div b
        r2 == (r1 % b) * K
        q2 == (r2 + (b \div 2)) \div b
    IN  q0 * Scale + q1 * K + q2

\* round(a * Scale / b), b # 0
DivFix[a \in Int, b \in Int \ {0}] == Sgn(a) * Sgn(b) * DivNat[Abs(a), Abs(b)]

\* the largest r in lo..hi with r * r <= x, given lo * lo <= x
ISqrtIn[x \in Nat, lo \in Nat, hi \in Nat] ==
    IF lo = hi THEN lo
    ELSE LET mid == (lo + hi + 1) \div 2
         IN  IF mid * mid <= x THEN ISqrtIn[x, mid, hi] ELSE ISqrtIn[x, lo, mid - 1]

\* floor(sqrt(x)), x >= 0
ISqrt[x \in Nat] == ISqrtIn[x, 0, 46340]

\* the largest rl in lo..hi with (rh * K + rl)^2 <= (rh * rh + d) * Scale
SqrtDigitsIn[rh \in Nat, d \in Nat, lo \in Nat, hi \in Nat] ==
    IF lo = hi THEN lo
    ELSE LET mid == (lo + hi + 1) \div 2
             sq  == mid * mid
         IN  IF 2 * rh * mid + (sq \div K) + (IF sq % K > 0 THEN 1 ELSE 0) <= d * K
             THEN SqrtDigitsIn[rh, d, mid, hi]
             ELSE SqrtDigitsIn[rh, d, lo, mid - 1]

\* floor(sqrt(x * Scale)) = floor(Scale * sqrt(x / Scale)), x >= 0: the root
\* is rh * K + rl with rh = floor(sqrt(x)) and rl its next three digits
SqrtFix[x \in Nat] ==
    LET rh == ISqrt[x]
    IN  rh * K + SqrtDigitsIn[rh, x - rh * rh, 0, K - 1]

Pi == 3141 * K + 593
TwoPi == 6283 * K + 185
HalfPi == 1570 * K + 796

\* sin z for 0 <= z <= pi/2: the Taylor polynomial to z^13, in Horner form
SinQ[z \in Nat] ==
    LET z2 == MulNat[z, z]
        t6 == Scale - (z2 \div 156)
        t5 == Scale - (MulNat[z2, t6] \div 110)
        t4 == Scale - (MulNat[z2, t5] \div 72)
        t3 == Scale - (MulNat[z2, t4] \div 42)
        t2 == Scale - (MulNat[z2, t3] \div 20)
        t1 == Scale - (MulNat[z2, t2] \div 6)
    IN  MulNat[z, t1]

\* cos z for 0 <= z <= pi/2: the Taylor polynomial to z^14, in Horner form
CosQ[z \in Nat] ==
    LET z2 == MulNat[z, z]
        t7 == Scale - (z2 \div 182)
        t6 == Scale - (MulNat[z2, t7] \div 132)
        t5 == Scale - (MulNat[z2, t6] \div 90)
        t4 == Scale - (MulNat[z2, t5] \div 56)
        t3 == Scale - (MulNat[z2, t4] \div 30)
        t2 == Scale - (MulNat[z2, t3] \div 12)
    IN  Scale - (MulNat[z2, t2] \div 2)

\* sin x and cos x for any x: reduce to [0, 2 pi), then to the first quadrant
SinFix[x \in Int] ==
    LET y == x % TwoPi
        z == IF y >= Pi THEN y - Pi ELSE y
        s == IF z > HalfPi THEN SinQ[Pi - z] ELSE SinQ[z]
    IN  IF y >= Pi THEN -s ELSE s

CosFix[x \in Int] ==
    LET y == x % TwoPi
        z == IF y >= Pi THEN y - Pi ELSE y
        c == IF z > HalfPi THEN -CosQ[Pi - z] ELSE CosQ[z]
    IN  IF y >= Pi THEN -c ELSE c

----------------------------------------------------------------------------
(* Float values and numpy's operations on them.                            *)

Float == [nan : BOOLEAN, v : Int]
F(v) == [nan |-> FALSE, v |-> v]
NaN == [nan |-> TRUE, v |-> 0]
\* the float of the integer n, and of the decimal n / 10
Num(n) == F(n * Scale)
Dec(n) == F((n * Scale) \div 10)

fadd[x \in Float, y \in Float] == IF x.nan \/ y.nan THEN NaN ELSE F(x.v + y.v)
fsub[x \in Float, y \in Float] == IF x.nan \/ y.nan THEN NaN ELSE F(x.v - y.v)
fneg[x \in Float] == IF x.nan THEN NaN ELSE F(-x.v)
fmul[x \in Float, y \in Float] ==
    IF x.nan \/ y.nan THEN NaN ELSE F(MulFix[x.v, y.v])
\* 0.0 / 0.0 is nan (numpy warns, it does not raise).  x / 0.0 with x # 0
\* is an infinity: no input of this model produces it, and the CASE has no
\* arm for it.
fdiv[x \in Float, y \in Float] ==
    CASE x.nan \/ y.nan -> NaN
      [] ~(x.nan \/ y.nan) /\ y.v # 0 -> F(DivFix[x.v, y.v])
      [] ~(x.nan \/ y.nan) /\ y.v = 0 /\ x.v = 0 -> NaN
fsq[x \in Float] == fmul[x, x]
fsqrt[x \in Float] == IF x.nan \/ x.v < 0 THEN NaN ELSE F(SqrtFix[x.v])
fsin[x \in Float] == IF x.nan THEN NaN ELSE F(SinFix[x.v])
fcos[x \in Float] == IF x.nan THEN NaN ELSE F(CosFix[x.v])

\* the one element of a singleton: The({e(v) : v \in {d}}) is e(d) with d
\* evaluated once
The(s) == CHOOSE r \in s : TRUE

----------------------------------------------------------------------------
(* Section 3: the analytic Bloch-vector solution.                          *)

\* omega with the square root left out
omega_no_sqrt(chi1, chi2) ==
    fadd[fsq[chi1], fsq[fdiv[fsub[chi2, Num(1)], Num(2)]]]

\* omega = np.sqrt(chi1 ** 2 + ((chi2 - 1) / 2) ** 2)
omega(chi1, chi2) ==
    fsqrt[fadd[fsq[chi1], fsq[fdiv[fsub[chi2, Num(1)], Num(2)]]]]

\* omega_tilde = chi2 - 1
omega_tilde(chi2) == fsub[chi2, Num(1)]

\* the rotating-frame components at one time t of the tau array
Sx_R(t, chi1, om, omt) ==
    fadd[fmul[fmul[fneg[fdiv[chi1, om]], fsin[fmul[fmul[Num(2), om], t]]],
              fsin[fmul[omt, t]]],
         fmul[fmul[fdiv[fmul[chi1, omt], fsq[om]], fsq[fsin[fmul[om, t]]]],
              fcos[fmul[omt, t]]]]

Sy_R(t, chi1, om, omt) ==
    fsub[fmul[fmul[fneg[fdiv[chi1, om]], fsin[fmul[fmul[Num(2), om], t]]],
              fcos[fmul[omt, t]]],
         fmul[fmul[fdiv[fmul[chi1, omt], fsq[om]], fsq[fsin[fmul[om, t]]]],
              fsin[fmul[omt, t]]]]

\* Sz_R with the coefficient chi1^2 / Omega^2, the factor 2 left out
Sz_R_half(t, chi1, om) ==
    fsub[Num(1), fmul[fdiv[fsq[chi1], fsq[om]], fsq[fsin[fmul[om, t]]]]]

\* Sz_R with the coefficient 2 chi1^2, the division by Omega^2 left out
Sz_R_no_omega(t, chi1, om) ==
    fsub[Num(1), fmul[fmul[Num(2), fsq[chi1]], fsq[fsin[fmul[om, t]]]]]

Sz_R(t, chi1, om) ==
    fsub[Num(1), fmul[fdiv[fmul[Num(2), fsq[chi1]], fsq[om]],
                      fsq[fsin[fmul[om, t]]]]]

\* Dirac picture back to the lab frame
Sx_lab(t, sxr, syr) == fsub[fmul[fcos[t], sxr], fmul[fsin[t], syr]]
Sy_lab(t, sxr, syr) == fadd[fmul[fsin[t], sxr], fmul[fcos[t], syr]]
Sz_lab(szr) == szr

S_mag(sx, sy, sz) == fsqrt[fadd[fadd[fsq[sx], fsq[sy]], fsq[sz]]]

\* the four results at one time t
LabSample(t, sxr, syr, szr) ==
    The({<<sx, sy, sz, S_mag(sx, sy, sz)>> :
            sx \in {Sx_lab(t, sxr, syr)},
            sy \in {Sy_lab(t, sxr, syr)},
            sz \in {Sz_lab(szr)}})

Sample(t, chi1, om, omt) ==
    The({LabSample(t, sxr, syr, szr) :
            sxr \in {Sx_R(t, chi1, om, omt)},
            syr \in {Sy_R(t, chi1, om, omt)},
            szr \in {Sz_R(t, chi1, om)}})

\* expectation with the last time sample left out of the four arrays
expectation_short(tau, chi1, chi2) ==
    The({ The({ [Sx_lab |-> [i \in 1..(Len(tau) - 1) |-> all[i][1]],
                 Sy_lab |-> [i \in 1..(Len(tau) - 1) |-> all[i][2]],
                 Sz_lab |-> [i \in 1..(Len(tau) - 1) |-> all[i][3]],
                 S_mag  |-> [i \in 1..(Len(tau) - 1) |-> all[i][4]]] :
                all \in {[i \in 1..Len(tau) |-> Sample(tau[i], chi1, om, omt)]} }) :
          om \in {omega(chi1, chi2)}, omt \in {omega_tilde(chi2)} })

\* expectation(tau, chi1, chi2): the four arrays, each elementwise over tau
expectation(tau, chi1, chi2) ==
    The({ The({ [Sx_lab |-> [i \in 1..Len(tau) |-> all[i][1]],
                 Sy_lab |-> [i \in 1..Len(tau) |-> all[i][2]],
                 Sz_lab |-> [i \in 1..Len(tau) |-> all[i][3]],
                 S_mag  |-> [i \in 1..Len(tau) |-> all[i][4]]] :
                all \in {[i \in 1..Len(tau) |-> Sample(tau[i], chi1, om, omt)]} }) :
          om \in {omega(chi1, chi2)}, omt \in {omega_tilde(chi2)} })

----------------------------------------------------------------------------
(* Section 2: the user-editable parameters of the notebook.                *)

chi_1 == Dec(1)
N_SAMPLES == 400
T_default == 60

NotebookCases ==
    << [chi_2 |-> Dec(10), label |-> "Resonance chi_2 = 1.0", color |-> "dodgerblue"],
       [chi_2 |-> Dec(8), label |-> "Non-Resonance chi_2 = 0.8", color |-> "lime"],
       [chi_2 |-> Dec(6), label |-> "Non-Resonance chi_2 = 0.6", color |-> "orangered"] >>

----------------------------------------------------------------------------
(* Section 4: compute_bloch_evolution.                                     *)

\* linspace setting the last point to stop even when it is the only point
linspace_stop_alone(start, stop, num) ==
    LET step == IF num > 1
                THEN (IF stop.v - start.v >= 0 THEN 1 ELSE -1)
                     * ((2 * Abs(stop.v - start.v) + (num - 1)) \div (2 * (num - 1)))
                ELSE 0
    IN  [i \in 1..num |->
            IF i = num THEN stop ELSE F(start.v + (i - 1) * step)]

\* np.linspace(start, stop, num): num < 0 raises; one point is start alone;
\* otherwise step = (stop - start) / (num - 1), y[i] = start + i * step, and
\* the last point is set to stop itself.
linspace(start, stop, num) ==
    LET step == IF num > 1
                THEN (IF stop.v - start.v >= 0 THEN 1 ELSE -1)
                     * ((2 * Abs(stop.v - start.v) + (num - 1)) \div (2 * (num - 1)))
                ELSE 0
    IN  [i \in 1..num |->
            IF num > 1 /\ i = num THEN stop ELSE F(start.v + (i - 1) * step)]

\* case["chi_2"], case.get("label", ...), case.get("color", None)
HasKey(case, key) == key \in DOMAIN case
Get(case, key, default) == IF HasKey(case, key) THEN case[key] ELSE default

\* the dict appended for one case
ResultRecord(case, tau, chi1) ==
    LET chi2 == case["chi_2"]
        e == expectation(tau, chi1, chi2)
    IN  [chi_2 |-> chi2,
         Sx_lab |-> e.Sx_lab,
         Sy_lab |-> e.Sy_lab,
         Sz_lab |-> e.Sz_lab,
         S_magnitude |-> e.S_mag,
         label |-> Get(case, "label", <<"chi_2 = %.1g", chi2>>),
         color |-> Get(case, "color", "None")]

\* results.insert(0, ...)
AppendResultFront(results, rec) == <<rec>> \o results

\* results.append(...)
AppendResult(results, rec) == Append(results, rec)

----------------------------------------------------------------------------
(* The calls of compute_bloch_evolution that are explored.                 *)

MaxCases == 2
MaxSamples == 3
MaxSkip == 2

Chi1Values == {Dec(0), Dec(1), Dec(-1), Dec(3)}
TValues == {Num(T_default), Dec(75)}
CaseValues ==
    {NotebookCases[i] : i \in 1..Len(NotebookCases)}
      \cup {[chi_2 |-> Dec(10)], [chi_2 |-> Dec(13)], [label |-> "no chi_2"]}

SeqsUpTo(S, n) == UNION {[1..m -> S] : m \in 0..n}

SmallCalls ==
    [chi1 : Chi1Values, cases : SeqsUpTo(CaseValues, MaxCases),
     n_samples : -1..MaxSamples, T : TValues]

\* section 5's call, compute_bloch_evolution(chi_1, cases), with chi_1 edited
NotebookCalls ==
    [chi1 : Chi1Values, cases : {NotebookCases},
     n_samples : {N_SAMPLES}, T : {Num(T_default)}]

VARIABLES
    chi1, cases, n_samples, T,  \* the arguments of the call
    pc,                          \* where the call is
    tau, results,                \* the function's locals
    k,                           \* how many cases the for loop has taken
    calls,                       \* how often expectation has been invoked
    exc,                         \* the exception that ended the call
    cell,                        \* where the notebook's figure cells are
    traj_lines, vec_lines,       \* the data of each case's two 3-D lines
    vlines,                      \* the xdata of vline1, vline2, vline3
    frame                        \* the frame index last given to animate

vars == <<chi1, cases, n_samples, T, pc, tau, results, k, calls, exc,
          cell, traj_lines, vec_lines, vlines, frame>>
args == <<chi1, cases, n_samples, T>>
fig == <<cell, traj_lines, vec_lines, vlines, frame>>

Init ==
    /\ \E c \in SmallCalls \cup NotebookCalls :
          /\ chi1 = c.chi1
          /\ cases = c.cases
          /\ n_samples = c.n_samples
          /\ T = c.T
    /\ pc = "call"
    /\ tau = <<>>
    /\ results = <<>>
    /\ k = 0
    /\ calls = 0
    /\ exc = "none"
    /\ cell = "run"
    /\ traj_lines = <<>>
    /\ vec_lines = <<>>
    /\ vlines = <<>>
    /\ frame = -1

\* tau = np.linspace(0.0, T, n_samples) with a negative n_samples
LinspaceRaises ==
    /\ pc = "call"
    /\ n_samples < 0
    /\ pc' = "raised"
    /\ exc' = "ValueError"
    /\ UNCHANGED <<args, fig, tau, results, k, calls>>

\* BuildGrid with a check that refuses an empty cases list
BuildGridValidating ==
    /\ pc = "call"
    /\ n_samples >= 0
    /\ IF cases = <<>>
       THEN /\ pc' = "raised"
            /\ exc' = "ConfigurationError"
            /\ UNCHANGED <<tau, results>>
       ELSE /\ tau' = linspace(Num(0), T, n_samples)
            /\ results' = <<>>
            /\ pc' = "loop"
            /\ exc' = exc
    /\ UNCHANGED <<args, fig, k, calls>>

\* tau = np.linspace(0.0, T, n_samples); results = []
BuildGrid ==
    /\ pc = "call"
    /\ n_samples >= 0
    /\ tau' = linspace(Num(0), T, n_samples)
    /\ results' = <<>>
    /\ pc' = "loop"
    /\ UNCHANGED <<args, fig, k, calls, exc>>

\* one pass of the loop body for a case that has "chi_2"
Iterate ==
    /\ pc = "loop"
    /\ k < Len(cases)
    /\ HasKey(cases[k + 1], "chi_2")
    /\ results' = AppendResult(results, ResultRecord(cases[k + 1], tau, chi1))
    /\ calls' = calls + 1
    /\ k' = k + 1
    /\ UNCHANGED <<args, fig, pc, tau, exc>>

\* KeyErrorRaises with every case looked at before the first is evaluated
KeyErrorRaisesUpFront ==
    /\ pc = "loop"
    /\ k = 0
    /\ \E i \in 1..Len(cases) : ~HasKey(cases[i], "chi_2")
    /\ pc' = "raised"
    /\ exc' = "KeyError"
    /\ UNCHANGED <<args, fig, tau, results, k, calls>>

\* chi2 = case["chi_2"] on a case without the key
KeyErrorRaises ==
    /\ pc = "loop"
    /\ k < Len(cases)
    /\ ~HasKey(cases[k + 1], "chi_2")
    /\ pc' = "raised"
    /\ exc' = "KeyError"
    /\ UNCHANGED <<args, fig, tau, results, k, calls>>

\* return tau, results
Return ==
    /\ pc = "loop"
    /\ k = Len(cases)
    /\ pc' = "returned"
    /\ UNCHANGED <<args, fig, tau, results, k, calls, exc>>

----------------------------------------------------------------------------
(* Sections 6 to 8: the figure and the animation callback.                 *)

Min(a, b) == IF a < b THEN a ELSE b

\* a[:stop] and a[i] of a numpy array, for stop, i >= 0
Slice(a, stop) == [i \in 1..Min(stop, Len(a)) |-> a[i]]
Item(a, i) == a[i + 1]

\* the data a 3-D line holds after set_data(x, y) and set_3d_properties(z)
LineData(x, y, z) == [x |-> x, y |-> y, z |-> z]

\* vline1 = ax1.axvline(tau[0], ...) on an empty tau
FigureRaises ==
    /\ pc = "returned"
    /\ cell = "run"
    /\ Len(tau) = 0
    /\ cell' = "IndexError"
    /\ UNCHANGED <<args, pc, tau, results, k, calls, exc,
                   traj_lines, vec_lines, vlines, frame>>

\* the three guide lines at tau[0], and two empty 3-D lines for each result
SetupFigure ==
    /\ pc = "returned"
    /\ cell = "run"
    /\ Len(tau) > 0
    /\ vlines' = [j \in 1..3 |-> <<Item(tau, 0), Item(tau, 0)>>]
    /\ traj_lines' = [r \in 1..Len(results) |-> LineData(<<>>, <<>>, <<>>)]
    /\ vec_lines' = [r \in 1..Len(results) |-> LineData(<<>>, <<>>, <<>>)]
    /\ cell' = "animate"
    /\ UNCHANGED <<args, pc, tau, results, k, calls, exc, frame>>

\* the trajectory line of result r after animate(f)
TrajData(r, f) ==
    LineData(Slice(r.Sx_lab, f + 1), Slice(r.Sy_lab, f + 1), Slice(r.Sz_lab, f + 1))

\* the state-vector line of result r after animate(f)
VecData(r, f) ==
    LineData(<<Num(0), Item(r.Sx_lab, f)>>, <<Num(0), Item(r.Sy_lab, f)>>,
             <<Num(0), Item(r.Sz_lab, f)>>)

\* animate extending the lines it finds by sample f, instead of setting them
animate_appending(f) ==
    /\ cell = "animate"
    /\ f \in 0..(Len(tau) - 1)
    /\ traj_lines' = [r \in 1..Min(Len(traj_lines), Len(results)) |->
                         LineData(Append(traj_lines[r].x, Item(results[r].Sx_lab, f)),
                                  Append(traj_lines[r].y, Item(results[r].Sy_lab, f)),
                                  Append(traj_lines[r].z, Item(results[r].Sz_lab, f)))]
    /\ vec_lines' = [r \in 1..Min(Len(vec_lines), Len(results)) |->
                        VecData(results[r], f)]
    /\ vlines' = [j \in 1..3 |-> <<Item(tau, f), Item(tau, f)>>]
    /\ frame' = f
    /\ UNCHANGED <<args, pc, tau, results, k, calls, exc, cell>>

\* animate(f): FuncAnimation gives it the frames of range(len(tau))
animate(f) ==
    /\ cell = "animate"
    /\ f \in 0..(Len(tau) - 1)
    /\ traj_lines' = [r \in 1..Min(Len(traj_lines), Len(results)) |->
                         TrajData(results[r], f)]
    /\ vec_lines' = [r \in 1..Min(Len(vec_lines), Len(results)) |->
                        VecData(results[r], f)]
    /\ vlines' = [j \in 1..3 |-> <<Item(tau, f), Item(tau, f)>>]
    /\ frame' = f
    /\ UNCHANGED <<args, pc, tau, results, k, calls, exc, cell>>

\* The frames FuncAnimation may give next: the sequence restarts at 0, or
\* moves at most MaxSkip frames on or back from the last one (forwards,
\* backwards, the same frame again), any number of times.
NextFrames ==
    {f \in 0..(Len(tau) - 1) : f = 0 \/ Abs(f - frame) <= MaxSkip}

Animate == \E f \in NextFrames : animate(f)

Next ==
    \/ LinspaceRaises \/ BuildGrid \/ Iterate \/ KeyErrorRaises \/ Return
    \/ FigureRaises \/ SetupFigure \/ Animate

Spec == Init /\ [][Next]_vars

----------------------------------------------------------------------------
(* The claims.                                                             *)

\* ten units of the sixth decimal place: the tolerance of this arithmetic
Tol == Scale \div (100 * K)

Near(x, y) == ~x.nan /\ ~y.nan /\ Abs(x.v - y.v) <= Tol
Returned == pc = "returned"
Records == 1..Len(results)
Samples == 1..Len(tau)
\* Omega = 0: no coupling at exact resonance
Singular(c1, c2) == c1 = Num(0) /\ c2 = Num(1)
NotebookGrid == n_samples = N_SAMPLES /\ T = Num(T_default)

\* C1: a call that returns yields one result record per case, in the order
\* of the cases: results[i] carries cases[i]'s chi_2 (and its label, when
\* the case gives one).
C1_OrderPreserved ==
    Returned =>
        /\ Len(results) = Len(cases)
        /\ \A i \in 1..Len(cases) :
              /\ results[i].chi_2 = cases[i]["chi_2"]
              /\ HasKey(cases[i], "label") => results[i].label = cases[i]["label"]

C1_Witness ==
    /\ Returned
    /\ Len(cases) = 2
    /\ cases[1]["chi_2"] # cases[2]["chi_2"]
    /\ Len(tau) > 0

\* C2: for every (chi1, chi2) with Omega # 0, every sample of S_magnitude is
\* 1 within the tolerance of the arithmetic, and it is the norm of the three
\* components returned with it (nothing is renormalised).
C2_UnitNorm ==
    \A r \in Records :
        ~Singular(chi1, results[r].chi_2) =>
            \A i \in Samples :
                /\ Near(results[r].S_magnitude[i], Num(1))
                /\ results[r].S_magnitude[i]
                     = S_mag(results[r].Sx_lab[i], results[r].Sy_lab[i],
                             results[r].Sz_lab[i])

C2_Witness ==
    /\ Returned
    /\ NotebookGrid
    /\ chi1 = chi_1
    /\ Len(results) = 3
    /\ \E i \in Samples : results[2].S_magnitude[i] # Num(1)

\* C3: with chi1 = 0 and chi2 = 1 the evaluator returns no not-a-number: a
\* result record computed for that pair (nothing was raised) is the static
\* solution Sx = Sy = 0, Sz = 1 at every sample.
C3_NoSilentNaN ==
    \A r \in Records :
        Singular(chi1, results[r].chi_2) =>
            \A i \in Samples :
                /\ results[r].Sx_lab[i] = Num(0)
                /\ results[r].Sy_lab[i] = Num(0)
                /\ results[r].Sz_lab[i] = Num(1)

\* C4: at tau = 0, the first sample of the grid, Sx_lab = Sy_lab = 0 and
\* Sz_lab = 1 for every case, whatever chi1 and chi2 are.
C4_ZeroTime ==
    \A r \in Records :
        Len(tau) >= 1 =>
            /\ tau[1] = Num(0)
            /\ results[r].Sx_lab[1] = Num(0)
            /\ results[r].Sy_lab[1] = Num(0)
            /\ results[r].Sz_lab[1] = Num(1)

FirstMissing ==
    IF \A i \in 1..Len(cases) : HasKey(cases[i], "chi_2") THEN 0
    ELSE CHOOSE i \in 1..Len(cases) :
            /\ ~HasKey(cases[i], "chi_2")
            /\ \A j \in 1..(i - 1) : HasKey(cases[j], "chi_2")

C8_Aligned ==
    Returned =>
        /\ Len(tau) = n_samples
        /\ \A r \in Records :
              /\ Len(results[r].Sx_lab) = Len(tau)
              /\ Len(results[r].Sy_lab) = Len(tau)
              /\ Len(results[r].Sz_lab) = Len(tau)
              /\ Len(results[r].S_magnitude) = Len(tau)
              /\ \A i \in Samples :
                    results[r].Sz_lab[i]
                      = Sz_R(tau[i], chi1, omega(chi1, results[r].chi_2))

C8_Witness ==
    /\ Returned
    /\ NotebookGrid
    /\ chi1 = Dec(3)
    /\ Len(results) = 3

\* Scenario A: chi1 = 0.1, chi2 = 1.0, 400 points over [0, 60]
ScenarioA ==
    /\ chi1 = chi_1
    /\ NotebookGrid
    /\ cases = NotebookCases
    /\ Len(results) >= 1

\* C9 as claimed: in scenario A every Sz_lab sample lies in [0.98, 1].
C9_ShallowFlop ==
    ScenarioA =>
        \A i \in Samples :
            /\ ~results[1].Sz_lab[i].nan
            /\ results[1].Sz_lab[i].v >= 98 * (Scale \div 100)
            /\ results[1].Sz_lab[i].v <= Scale

\* C9 as amended: in scenario A Sz_lab oscillates between 1 and -1: every
\* sample lies in [-1, 1], the first is 1, and samples within 0.01 of -1
\* occur; the depth is 2 chi1^2 / Omega^2 = 2.
C9_FullFlop ==
    ScenarioA =>
        /\ \A i \in Samples :
              /\ ~results[1].Sz_lab[i].nan
              /\ results[1].Sz_lab[i].v >= -Scale - Tol
              /\ results[1].Sz_lab[i].v <= Scale + Tol
        /\ results[1].Sz_lab[1] = Num(1)
        /\ \E i \in Samples : results[1].Sz_lab[i].v <= -99 * (Scale \div 100)

C9_Witness ==
    /\ ScenarioA
    /\ Returned
    /\ \E i \in Samples : results[1].Sz_lab[i].v < 0

\* C10: at chi2 = 1 and chi1 # 0 the detuning is 0, Omega = |chi1|, the
\* coefficient 2 chi1^2 / Omega^2 is 2, and Sz_lab is 1 - 2 sin(chi1 tau)^2
\* at every sample.
C10_Resonance ==
    \A r \in Records :
        (results[r].chi_2 = Num(1) /\ chi1 # Num(0)) =>
            /\ omega_tilde(results[r].chi_2) = Num(0)
            /\ omega(chi1, results[r].chi_2) = F(Abs(chi1.v))
            /\ fdiv[fmul[Num(2), fsq[chi1]], fsq[omega(chi1, results[r].chi_2)]]
                 = Num(2)
            /\ \A i \in Samples :
                  Near(results[r].Sz_lab[i],
                       fsub[Num(1), fmul[Num(2), fsq[fsin[fmul[chi1, tau[i]]]]]])

C10_Witness ==
    /\ Returned
    /\ NotebookGrid
    /\ chi1 = Dec(-1)
    /\ results[1].chi_2 = Num(1)

\* C11: whatever frames came before, after animate(f) with f in
\* 0..len(tau)-1 every case's trajectory line holds exactly samples 0..f of
\* that case, every state-vector line runs from the origin to sample f, and
\* the three guide lines sit at tau[f]: all cases show the same frame.
C11_FrameOnly ==
    (cell = "animate" /\ frame # -1) =>
        /\ frame \in 0..(Len(tau) - 1)
        /\ Len(traj_lines) = Len(results)
        /\ Len(vec_lines) = Len(results)
        /\ \A r \in Records :
              /\ Len(results[r].Sx_lab) > frame
              /\ Len(traj_lines[r].x) = frame + 1
              /\ Len(traj_lines[r].y) = frame + 1
              /\ Len(traj_lines[r].z) = frame + 1
              /\ \A i \in 1..(frame + 1) :
                    /\ traj_lines[r].x[i] = results[r].Sx_lab[i]
                    /\ traj_lines[r].y[i] = results[r].Sy_lab[i]
                    /\ traj_lines[r].z[i] = results[r].Sz_lab[i]
              /\ vec_lines[r].x = <<Num(0), results[r].Sx_lab[frame + 1]>>
              /\ vec_lines[r].y = <<Num(0), results[r].Sy_lab[frame + 1]>>
              /\ vec_lines[r].z = <<Num(0), results[r].Sz_lab[frame + 1]>>
        /\ \A j \in 1..3 : vlines[j] = <<tau[frame + 1], tau[frame + 1]>>

C11_Witness ==
    /\ cell = "animate"
    /\ NotebookGrid
    /\ chi1 = chi_1
    /\ Len(results) = 3
    /\ frame = N_SAMPLES - 1
    /\ traj_lines[3].z[N_SAMPLES] # traj_lines[1].z[N_SAMPLES]

====
